---- MODULE Spec2Model ----
(***************************************************************************)
(* A model of scrapper.py: the asyncio crawl of papers.nips.cc.  Texts     *)
(* (URLs, paths, bibliography bodies, file contents) are sequences of      *)
(* one-character strings, so that the regular expressions and the file     *)
(* name sanitizer are computed character by character as the code does.    *)
(* One action is one run of a coroutine between two suspension points      *)
(* (awaits): asyncio runs everything between two awaits atomically.        *)
(***************************************************************************)
EXTENDS Naturals, Integers, Sequences, FiniteSets, Bags, TLC

(* ---------------------------------------------------------------------- *)
(* Bounds of the model.                                                    *)
(* ---------------------------------------------------------------------- *)

\* The longest index page (number of li > a anchors) the model draws.
MaxIndexLinks == 2

\* How many requests or file operations of one run may go wrong (raise, or
\* answer with a non-2xx status).
MaxFaults == 1

(* ---------------------------------------------------------------------- *)
(* Constants of the program.                                               *)
(* ---------------------------------------------------------------------- *)

BASE_URL ==
    <<"h","t","t","p","s",":","/","/","p","a","p","e","r","s",".","n","i","p","s",".","c","c","/">>

DOWNLOAD_PATH ==
    <<"D",":","/","d","s">>

\* USER_AGENTS[0]
USER_AGENT == "Mozilla/5.0 (Windows NT 10.0; Win64; x64; rv:90.0) Gecko/20100101 Firefox/90.0"

\* What aiohttp sends when the caller passes no headers.
DEFAULT_AGENT == "aiohttp default"

\* The literal of href.startswith(...) and href.replace(..., "").
PAPER_PREFIX ==
    <<"/","p","a","p","e","r","_","f","i","l","e","s","/","p","a","p","e","r","/">>

Unknown_Title ==
    <<"U","n","k","n","o","w","n","_","T","i","t","l","e">>

Unknown_Booktitle ==
    <<"U","n","k","n","o","w","n","_","B","o","o","k","t","i","t","l","e">>

Unknown_Author ==
    <<"U","n","k","n","o","w","n","_","A","u","t","h","o","r">>

KeyTitle ==
    <<"t","i","t","l","e">>

KeyBooktitle ==
    <<"b","o","o","k","t","i","t","l","e">>

KeyAuthor ==
    <<"a","u","t","h","o","r">>

KeyUrl ==
    <<"u","r","l">>

PdfExt ==
    <<".","p","d","f">>

JsonExt ==
    <<".","j","s","o","n">>

PdfDir ==
    <<"p","d","f">>

JsonDirPrefix ==
    <<"j","s","o","n","_">>

\* Python's None, and the empty text (both falsy).
None == <<>>

(* ---------------------------------------------------------------------- *)
(* Characters and texts.                                                   *)
(* ---------------------------------------------------------------------- *)

\* \w of Python's re on the ASCII characters.
WordChars ==
    {"a","b","c","d","e","f","g","h","i","j","k","l","m","n","o","p","q","r","s","t","u","v","w","x","y","z","A","B","C","D","E","F","G","H","I","J","K","L","M","N","O","P","Q","R","S","T","U","V","W","X","Y","Z","0","1","2","3","4","5","6","7","8","9","_"}

\* \s of Python's re, and what str.strip() removes.
SpaceChars == {" ", "\n", "\t", "\r", "\f"}

\* The character class of sanitize_filename.
UnsafeChars == {"\\", "/", ":", "*", "?", "\"", "<", ">", "|"}

IsWord(c) == c \in WordChars

IsSpace(c) == c \in SpaceChars

\* Whether literal lit stands in text t at position i.
LitAt(t, lit, i) ==
    /\ i >= 1
    /\ i + Len(lit) - 1 <= Len(t)
    /\ SubSeq(t, i, i + Len(lit) - 1) = lit

\* str.startswith
StartsWith(t, lit) == LitAt(t, lit, 1)

\* The first position >= i of t whose character is not in class cls
\* (Len(t) + 1 when there is none): where a greedy cls* stops.
RECURSIVE RunEnd(_, _, _)
RunEnd(t, cls, i) ==
    IF i > Len(t) \/ t[i] \notin cls THEN i ELSE RunEnd(t, cls, i + 1)

\* The first position >= i of t whose character is in class cls.
RECURSIVE FindIn(_, _, _)
FindIn(t, cls, i) ==
    IF i > Len(t) \/ t[i] \in cls THEN i ELSE FindIn(t, cls, i + 1)

\* str.strip()
RECURSIVE LStrip(_)
LStrip(t) ==
    IF t # <<>> /\ IsSpace(Head(t)) THEN LStrip(Tail(t)) ELSE t

RECURSIVE RStrip(_)
RStrip(t) ==
    IF t # <<>> /\ IsSpace(t[Len(t)]) THEN RStrip(SubSeq(t, 1, Len(t) - 1)) ELSE t

Strip(t) == RStrip(LStrip(t))

\* str.replace(old, new): every non-overlapping occurrence, left to right.
RECURSIVE Replace(_, _, _)
Replace(t, old, new) ==
    IF t = <<>> THEN <<>>
    ELSE IF old # <<>> /\ StartsWith(t, old)
         THEN new \o Replace(SubSeq(t, Len(old) + 1, Len(t)), old, new)
         ELSE <<Head(t)>> \o Replace(Tail(t), old, new)

(* ---------------------------------------------------------------------- *)
(* Helper functions of the program.                                        *)
(* ---------------------------------------------------------------------- *)

\* Variant of sanitize_filename: re.sub with count=1.
sanitize_first_only(filename) ==
    [i \in 1..Len(filename) |->
        IF /\ filename[i] \in UnsafeChars
           /\ \A j \in 1..(i - 1) : filename[j] \notin UnsafeChars
        THEN "_" ELSE filename[i]]

\* re.sub(r'[\\/:*?"<>|]', '_', filename)
sanitize_filename(filename) ==
    [i \in 1..Len(filename) |->
        IF filename[i] \in UnsafeChars THEN "_" ELSE filename[i]]

\* One attempt of  \s*=\s*{  from position i: the position after the "{",
\* or 0 when the text does not match there.
AfterAssign(t, i) ==
    LET e == RunEnd(t, SpaceChars, i)
        b == RunEnd(t, SpaceChars, e + 1)
    IN  IF e <= Len(t) /\ t[e] = "=" /\ b <= Len(t) /\ t[b] = "{"
        THEN b + 1 ELSE 0

\* One attempt of  (\w+)\s*=\s*{([^{}]+)}  at start position i: the key, the
\* value and the position after the match, or end = 0.  Each greedy run is
\* followed by a character outside its class, so backtracking never finds a
\* match the longest runs miss.
FieldAt(t, i) ==
    LET w == RunEnd(t, WordChars, i)
        v == IF w > i THEN AfterAssign(t, w) ELSE 0
        c == IF v > 0 THEN FindIn(t, {"{", "}"}, v) ELSE 0
    IN  IF v > 0 /\ c > v /\ c <= Len(t) /\ t[c] = "}"
        THEN [key |-> SubSeq(t, i, w - 1), value |-> SubSeq(t, v, c - 1),
              end |-> c + 1]
        ELSE [key |-> <<>>, value |-> <<>>, end |-> 0]

\* pattern.findall(bib_text): the non-overlapping matches, leftmost first.
RECURSIVE FindAllFields(_, _)
FindAllFields(t, i) ==
    IF i > Len(t) THEN <<>>
    ELSE LET m == FieldAt(t, i)
         IN  IF m.end > 0
             THEN <<<<m.key, m.value>>>> \o FindAllFields(t, m.end)
             ELSE FindAllFields(t, i + 1)

\* A dict is the sequence of its <<key, value>> items in insertion order.
DictHas(d, k) == \E j \in 1..Len(d) : d[j][1] = k

\* d[k] = v: a present key keeps its place, a new key goes last.
DictSet(d, k, v) ==
    IF DictHas(d, k)
    THEN [j \in 1..Len(d) |-> IF d[j][1] = k THEN <<k, v>> ELSE d[j]]
    ELSE Append(d, <<k, v>>)

\* d.get(k, default)
DictGet(d, k, default) ==
    IF DictHas(d, k)
    THEN d[CHOOSE j \in 1..Len(d) : d[j][1] = k][2]
    ELSE default

\* for key, value in matches: fields[key] = value.strip()
RECURSIVE StoreFields(_, _)
StoreFields(fields, matches) ==
    IF matches = <<>> THEN fields
    ELSE StoreFields(DictSet(fields, Head(matches)[1], Strip(Head(matches)[2])),
                     Tail(matches))

extract_all_bib_fields(bib_text) ==
    StoreFields(<<>>, FindAllFields(bib_text, 1))

\* The positions k where  \.pdf}  stands, with at least one character of
\* [^"]+ between u and k and no double quote from u to k.
PdfEnds(t, u) ==
    LET q == FindIn(t, {"\""}, u)
    IN  {k \in (u + 1)..(q - 1) : LitAt(t, PdfExt \o <<"}">>, k)}

\* One attempt of  url\s*=\s*{(https?://[^"]+\.pdf)}  at start position i:
\* group 1, or None.  [^"]+ is greedy, so the last  .pdf}  before the next
\* double quote ends the group.
PdfUrlAt(t, i) ==
    LET v == IF LitAt(t, KeyUrl, i) THEN AfterAssign(t, i + Len(KeyUrl)) ELSE 0
        u == IF v = 0 THEN 0
             ELSE IF LitAt(t, <<"h","t","t","p","s",":","/","/">>, v) THEN v + 8
             ELSE IF LitAt(t, <<"h","t","t","p",":","/","/">>, v) THEN v + 7
             ELSE 0
        ends == IF u = 0 THEN {} ELSE PdfEnds(t, u)
    IN  IF ends = {} THEN None
        ELSE LET k == CHOOSE x \in ends : \A y \in ends : y <= x
             IN  SubSeq(t, v, k + Len(PdfExt) - 1)

\* pattern.search(bib_text): the match at the leftmost start position.
RECURSIVE SearchPdfUrl(_, _)
SearchPdfUrl(t, i) ==
    IF i > Len(t) THEN None
    ELSE IF PdfUrlAt(t, i) # None THEN PdfUrlAt(t, i)
    ELSE SearchPdfUrl(t, i + 1)

extract_pdf_url(bib_text) == SearchPdfUrl(bib_text, 1)

\* One character inside a JSON string, as json.dumps escapes it.
JsonChar(c) ==
    CASE c = "\"" -> <<"\\", "\"">>
      [] c = "\\" -> <<"\\", "\\">>
      [] c = "\n" -> <<"\\", "n">>
      [] c = "\t" -> <<"\\", "t">>
      [] c = "\r" -> <<"\\", "r">>
      [] c = "\f" -> <<"\\", "f">>
      [] OTHER -> <<c>>

RECURSIVE JsonString(_)
JsonString(t) ==
    IF t = <<>> THEN <<>> ELSE JsonChar(Head(t)) \o JsonString(Tail(t))

JsonQuoted(t) == <<"\"">> \o JsonString(t) \o <<"\"">>

RECURSIVE JsonItems(_)
JsonItems(d) ==
    IF d = <<>> THEN <<>>
    ELSE <<"\n", " ", " ", " ", " ">>
         \o JsonQuoted(Head(d)[1]) \o <<":", " ">> \o JsonQuoted(Head(d)[2])
         \o (IF Len(d) > 1 THEN <<",">> ELSE <<"\n">>)
         \o JsonItems(Tail(d))

\* json.dumps(bib_data, indent=4) of a dict of strings.
json_dumps(d) == <<"{">> \o JsonItems(d) \o <<"}">>

\* os.path.join(a, b) with "/" as the separator.
PathJoin(a, b) ==
    IF StartsWith(b, <<"/">>) THEN b
    ELSE IF a = <<>> \/ a[Len(a)] = "/" THEN a \o b
    ELSE a \o <<"/">> \o b

\* The directory a path lies in.
RECURSIVE Parent(_)
Parent(path) ==
    IF path = <<>> THEN <<>>
    ELSE IF path[Len(path)] = "/" THEN SubSeq(path, 1, Len(path) - 1)
    ELSE Parent(SubSeq(path, 1, Len(path) - 1))

\* Variant of makedirs: nothing is created.
makedirs_nothing(ds, path) == ds

\* os.makedirs(path, exist_ok=True): the directory and every missing
\* ancestor exist afterwards; a directory that exists is not an error.
makedirs(ds, path) ==
    ds \cup {path}
       \cup {SubSeq(path, 1, j - 1) : j \in {x \in 2..Len(path) : path[x] = "/"}}

(* ---------------------------------------------------------------------- *)
(* The site: what each URL answers.  A page is what BeautifulSoup selects  *)
(* from it: the li > a anchors in document order and the anchors of class  *)
(* btn btn-light btn-spacer.  An anchor may lack its href attribute.       *)
(* ---------------------------------------------------------------------- *)

HrefL1 ==
    <<"/","p","a","p","e","r","_","f","i","l","e","s","/","p","a","p","e","r","/","2","0","2","1">>

HrefL2 ==
    <<"/","p","a","p","e","r","_","f","i","l","e","s","/","p","a","p","e","r","/","2","0","2","2">>

HrefP1 ==
    <<"/","p","a","p","e","r","_","f","i","l","e","s","/","p","a","p","e","r","/","2","0","2","1","/","h","a","s","h","/","a","b","c">>

HrefP2 ==
    <<"/","p","a","p","e","r","_","f","i","l","e","s","/","p","a","p","e","r","/","2","0","2","1","/","h","a","s","h","/","p","2">>

HrefP3 ==
    <<"/","p","a","p","e","r","_","f","i","l","e","s","/","p","a","p","e","r","/","2","0","2","2","/","h","a","s","h","/","p","3">>

HrefP4 ==
    <<"/","p","a","p","e","r","_","f","i","l","e","s","/","p","a","p","e","r","/","2","0","2","2","/","h","a","s","h","/","p","4">>

HrefP5 ==
    <<"/","p","a","p","e","r","_","f","i","l","e","s","/","p","a","p","e","r","/","2","0","2","2","/","h","a","s","h","/","p","5">>

HrefOther ==
    <<"/","a","b","o","u","t">>

HrefBib1 ==
    <<"/","p","a","p","e","r","_","f","i","l","e","s","/","p","a","p","e","r","/","2","0","2","1","/","f","i","l","e","/","a","b","c",".","b","i","b">>

HrefBib2 ==
    <<"/","p","a","p","e","r","_","f","i","l","e","s","/","p","a","p","e","r","/","2","0","2","1","/","f","i","l","e","/","p","2",".","b","i","b">>

HrefBib4 ==
    <<"/","p","a","p","e","r","_","f","i","l","e","s","/","p","a","p","e","r","/","2","0","2","2","/","f","i","l","e","/","p","4",".","b","i","b">>

HrefBib5 ==
    <<"/","p","a","p","e","r","_","f","i","l","e","s","/","p","a","p","e","r","/","2","0","2","2","/","f","i","l","e","/","p","5",".","b","i","b">>

BibText1 ==
    <<"t","i","t","l","e"," ","="," ","{","T","}","\n","a","u","t","h","o","r"," ","="," ","{","A","}","\n","b","o","o","k","t","i","t","l","e"," ","="," ","{","B","}","\n","u","r","l"," ","="," ","{","h","t","t","p","s",":","/","/","x","/","d","o","c",".","p","d","f","}">>

BibText2 ==
    <<"t","i","t","l","e","=","{","T","2","}","\n","a","u","t","h","o","r","=","{","A","/","b","}","\n","b","o","o","k","t","i","t","l","e","=","{","B","}","\n","u","r","l","=","{","h","t","t","p",":","/","/","x","/","2",".","p","d","f","}">>

BibText4 ==
    <<"t","i","t","l","e","=","{","T","4","}","\n","u","r","l","=","{","h","t","t","p",":","/","/","x","/","4",".","h","t","m","l","}">>

BibText5 ==
    <<"u","r","l","=","{","h","t","t","p",":","/","/","x","/","5",".","p","d","f","}","\n","t","i","t","l","e","=","{","T","5","}","\n","a","u","t","h","o","r","=","{"," ","A",":","b"," ","}","\n","b","o","o","k","t","i","t","l","e","=","{","B","}","\n","u","r","l","=","{","h","t","t","p",":","/","/","x","/","5","}">>

ErrorText ==
    <<"N","o","t"," ","F","o","u","n","d">>

PdfUrl1 ==
    <<"h","t","t","p","s",":","/","/","x","/","d","o","c",".","p","d","f">>

PdfUrl2 ==
    <<"h","t","t","p",":","/","/","x","/","2",".","p","d","f">>

PdfUrl5 ==
    <<"h","t","t","p",":","/","/","x","/","5",".","p","d","f">>

Anchor(href) == [has_href |-> TRUE, href |-> href]

NoHrefAnchor == [has_href |-> FALSE, href |-> <<>>]

Page(anchors, buttons) == [anchors |-> anchors, buttons |-> buttons]

Resource(page, text, body) == [page |-> page, text |-> text, body |-> body]

HtmlPage(anchors, buttons) == Resource(Page(anchors, buttons), <<>>, <<>>)

BibBody(text) == Resource(Page(<<>>, <<>>), text, <<>>)

PdfBody(body) == Resource(Page(<<>>, <<>>), <<>>, body)

\* The body of a non-2xx answer: an error page without links.
ErrorResource == Resource(Page(<<>>, <<>>), ErrorText, <<"E">>)

Url(href) == BASE_URL \o href

\* An abstract page: site navigation in its list items, the Bibtex button.
AbstractPage(bib_href) == HtmlPage(<<Anchor(HrefOther)>>, <<Anchor(bib_href)>>)

Site(url) ==
    CASE url = Url(HrefL1) ->
           HtmlPage(<<Anchor(HrefP1), Anchor(HrefP2)>>, <<>>)
      [] url = Url(HrefL2) ->
           HtmlPage(<<Anchor(HrefP3), Anchor(HrefP4), Anchor(HrefP5),
                      Anchor(HrefP2), NoHrefAnchor, Anchor(HrefP1)>>, <<>>)
      [] url = Url(HrefP1) -> AbstractPage(HrefBib1)
      [] url = Url(HrefP2) -> AbstractPage(HrefBib2)
      [] url = Url(HrefP3) -> HtmlPage(<<Anchor(HrefOther)>>, <<>>)
      [] url = Url(HrefP4) -> AbstractPage(HrefBib4)
      [] url = Url(HrefP5) -> AbstractPage(HrefBib5)
      [] url = Url(HrefBib1) -> BibBody(BibText1)
      [] url = Url(HrefBib2) -> BibBody(BibText2)
      [] url = Url(HrefBib4) -> BibBody(BibText4)
      [] url = Url(HrefBib5) -> BibBody(BibText5)
      [] url = PdfUrl1 -> PdfBody(<<"1">>)
      [] url = PdfUrl2 -> PdfBody(<<"2">>)
      [] url = PdfUrl5 -> PdfBody(<<"5", "5">>)
      [] OTHER -> ErrorResource

\* The texts the site answers a .bib request with.
BibTexts == {BibText1, BibText2, BibText4, BibText5, ErrorText}

\* The anchors an index page is drawn from.
IndexAnchors ==
    {Anchor(HrefL1), Anchor(HrefL2), Anchor(HrefP1), Anchor(HrefOther),
     NoHrefAnchor}

IndexPages ==
    UNION {[1..n -> IndexAnchors] : n \in 0..MaxIndexLinks}

(* ---------------------------------------------------------------------- *)
(* State.                                                                  *)
(* ---------------------------------------------------------------------- *)

VARIABLES
    index,      \* the li > a anchors of the index page (the run's input)
    main_pc,    \* where main() stands
    tasks,      \* the coroutines main() appended: process_href's arguments
    inv,        \* per task: where process_href and its callees stand
    dirs,       \* the directories that exist
    files,      \* path -> content of the files that exist
    log,        \* the bag of lines printed
    requests,   \* history: the HTTP requests issued, with the User-Agent sent
    consumed,   \* history: the response bodies used (parsed as a page or a
                \* .bib, written to a PDF file) with the status they came with
    writes,     \* history: the directories made and the files opened and
                \* written by the pipelines, per paper
    raised,     \* history: the exceptions raised, per paper and step
    faults,     \* how many operations went wrong so far
    call        \* a helper function called on its own: its argument and result

\* No helper function is called on its own.
NoCall == [fn |-> "none"]

vars ==
    <<index, main_pc, tasks, inv, dirs, files, log, requests, consumed,
      writes, raised, faults, call>>

\* How an awaited HTTP GET can end: a 2xx answer, a non-2xx answer (aiohttp
\* hands it over like any other), or an exception (connection error).
HttpOutcomes == {"ok", "status", "raise"}

\* How an awaited file operation or a makedirs can end.
IoOutcomes == {"ok", "raise"}

Allowed(o) == o = "ok" \/ faults < MaxFaults

Charge(o) == IF o = "ok" THEN faults ELSE faults + 1

StatusOf(url, o) ==
    IF o = "ok" /\ Site(url) # ErrorResource THEN 200 ELSE 404

BodyOf(url, o) == IF o = "ok" THEN Site(url) ELSE ErrorResource

\* session.get(url, headers={"User-Agent": USER_AGENTS[0]}) of fetch
fetch_agent == USER_AGENT

\* session.get(url) of download_pdf: no headers argument
download_agent == DEFAULT_AGENT

Request(i, k, kind, url, agent) ==
    [inv |-> i, k |-> k, kind |-> kind, url |-> url, agent |-> agent]

\* fetch and download_pdf raise only what the request raises: there is no
\* raise_for_status() and no look at response.status.
fetch_raises(o) == o = "raise"

Used(i, k, as, url, status) ==
    [inv |-> i, k |-> k, as |-> as, url |-> url, status |-> status]

Wrote(i, k, paper, op, path) ==
    [inv |-> i, k |-> k, paper |-> paper, op |-> op, path |-> path]

Raised(i, k, at) == [inv |-> i, k |-> k, at |-> at]

print_line(lg, msg, arg) == lg (+) SetToBag({[msg |-> msg, arg |-> arg]})

Printed(msg, arg) == CopiesIn([msg |-> msg, arg |-> arg], log)

\* "if pdf_link:": select_one found a tag.
pdf_link_found(pdf_link) == pdf_link # None

\* Variant of pdf_url_found: the test is missing.
pdf_url_found_always(pdf_url) == TRUE

\* "if pdf_url:": extract_pdf_url found a match.
pdf_url_found(pdf_url) == pdf_url # None

NoPaper ==
    [abs_url |-> <<>>, bib_url |-> <<>>, pdf_url |-> <<>>, bib_data |-> <<>>,
     pdf_file_path |-> <<>>, json_file_path |-> <<>>, pdf_status |-> 0]

NewInvocation == [pc |-> "created", links |-> <<>>, k |-> 0, paper |-> NoPaper]

\* Variant of NextStep: the JSON is written before the PDF is downloaded.
NextStepJsonFirst(pc) ==
    CASE pc = "abstract" -> "bib"
      [] pc = "bib" -> "json_open"
      [] pc = "json_open" -> "json_write"
      [] pc = "json_write" -> "pdf_get"
      [] pc = "pdf_get" -> "pdf_open"
      [] pc = "pdf_open" -> "pdf_write"
      [] OTHER -> "done"

\* The await a pipeline reaches when the one at pc has ended well: the
\* statement order of process_abstract, process_bib_and_pdf and download_pdf.
NextStep(pc) ==
    CASE pc = "abstract" -> "bib"
      [] pc = "bib" -> "pdf_get"
      [] pc = "pdf_get" -> "pdf_open"
      [] pc = "pdf_open" -> "pdf_write"
      [] pc = "pdf_write" -> "json_open"
      [] pc = "json_open" -> "json_write"
      [] OTHER -> "done"

\* f.write(data) through a handle opened with "wb" or "w": the handle writes
\* from offset 0 over what the file holds when the data reaches it.
WriteFromStart(old, data) ==
    data \o SubSeq(old, Len(data) + 1, Len(old))

SetFile(fs, path, content) ==
    [p \in DOMAIN fs \cup {path} |-> IF p = path THEN content ELSE fs[p]]

\* aio_open(path, "wb") / aio_open(path, "w") needs the directory; it
\* creates the file or truncates it.
CanOpen(path) == Parent(path) \in dirs

(* ---------------------------------------------------------------------- *)
(* main()                                                                  *)
(* ---------------------------------------------------------------------- *)

\* The for loop of main() from anchor j on: the tasks appended, the folders
\* made, and whether link["href"] raised KeyError.
RECURSIVE MainLoop(_, _, _, _)
MainLoop(links, j, ts, ds) ==
    IF j > Len(links) THEN [tasks |-> ts, dirs |-> ds, raised |-> FALSE]
    ELSE IF ~links[j].has_href THEN [tasks |-> ts, dirs |-> ds, raised |-> TRUE]
    ELSE IF StartsWith(links[j].href, PAPER_PREFIX)
    THEN LET folder_name == Replace(links[j].href, PAPER_PREFIX, <<>>)
             folder_path == PathJoin(DOWNLOAD_PATH, folder_name)
         IN  MainLoop(links, j + 1,
                      Append(ts, [url |-> Url(links[j].href),
                                  folder_path |-> folder_path,
                                  folder_name |-> folder_name]),
                      makedirs(ds, folder_path))
    ELSE MainLoop(links, j + 1, ts, ds)

\* Variant of MainAfterLoop: the exception of the loop is swallowed and
\* the tasks appended so far are awaited.
MainAfterLoopGathers(loop_raised) == "gather"

\* Where main() stands after its for loop: an exception of the loop is not
\* caught and ends main(), else it awaits asyncio.gather(*tasks).
MainAfterLoop(loop_raised) == IF loop_raised THEN "failed" ELSE "gather"

\* main() runs to its first await: fetch(session, BASE_URL).
MainStart ==
    /\ main_pc = "start"
    /\ main_pc' = "fetch_index"
    /\ requests' = requests \cup {Request(0, 0, "index", BASE_URL, fetch_agent)}
    /\ UNCHANGED <<call, index, tasks, inv, dirs, files, log, consumed, writes,
                   raised, faults>>

\* The index answers: main() parses it, loops over the anchors and awaits
\* asyncio.gather(*tasks); an exception ends main(), with no task started.
MainIndexResponse ==
    /\ main_pc = "fetch_index"
    /\ \E o \in HttpOutcomes :
        /\ Allowed(o)
        /\ faults' = Charge(o)
        /\ IF fetch_raises(o)
           THEN /\ main_pc' = "failed"
                /\ raised' = raised \cup {Raised(0, 0, "fetch_index")}
                /\ UNCHANGED <<tasks, inv, dirs, consumed>>
           ELSE LET page == IF o = "ok" THEN Page(index, <<>>)
                            ELSE ErrorResource.page
                    r == MainLoop(page.anchors, 1, <<>>, dirs)
                IN  /\ consumed' = consumed \cup
                           {Used(0, 0, "index", BASE_URL,
                                 IF o = "ok" THEN 200 ELSE 404)}
                    /\ tasks' = r.tasks
                    /\ dirs' = r.dirs
                    /\ inv' = [i \in 1..Len(r.tasks) |-> NewInvocation]
                    /\ main_pc' = MainAfterLoop(r.raised)
                    /\ raised' = IF r.raised
                                 THEN raised \cup {Raised(0, 0, "href")}
                                 ELSE raised
    /\ UNCHANGED <<call, index, files, log, requests, writes>>

\* Variant of GatherDone: the wait ends with the first task that finishes.
GatherAny == \E i \in DOMAIN inv : inv[i].pc = "done"

\* What asyncio.gather(*tasks) waits for: every task it was given.
GatherDone == \A i \in DOMAIN inv : inv[i].pc = "done"

\* Variant of MainReturn: main() does not wait for the tasks.
MainReturnNoWait ==
    /\ main_pc = "gather"
    /\ main_pc' = "done"
    /\ UNCHANGED <<call, index, tasks, inv, dirs, files, log, requests, consumed,
                   writes, raised, faults>>

\* asyncio.gather returns; main() leaves the session and returns.
MainReturn ==
    /\ main_pc = "gather"
    /\ GatherDone
    /\ main_pc' = "done"
    /\ UNCHANGED <<call, index, tasks, inv, dirs, files, log, requests, consumed,
                   writes, raised, faults, call>>

(* ---------------------------------------------------------------------- *)
(* process_href, process_abstract, process_bib_and_pdf, download_pdf       *)
(* ---------------------------------------------------------------------- *)

\* Variant of HrefLoop: the links are taken from the end of the list.
RECURSIVE HrefLoopBackwards(_, _)
HrefLoopBackwards(links, k) ==
    LET j == Len(links) + 1 - k
    IN  IF k > Len(links) THEN [kind |-> "end", k |-> k]
        ELSE IF ~links[j].has_href THEN [kind |-> "keyerror", k |-> k]
        ELSE IF StartsWith(links[j].href, PAPER_PREFIX) THEN [kind |-> "paper", k |-> j]
        ELSE HrefLoopBackwards(links, k + 1)

\* The for loop of process_href from anchor k on, up to its next await:
\* the next paper link, the end of the list, or KeyError on link["href"].
RECURSIVE HrefLoop(_, _)
HrefLoop(links, k) ==
    IF k > Len(links) THEN [kind |-> "end", k |-> k]
    ELSE IF ~links[k].has_href THEN [kind |-> "keyerror", k |-> k]
    ELSE IF StartsWith(links[k].href, PAPER_PREFIX) THEN [kind |-> "paper", k |-> k]
    ELSE HrefLoop(links, k + 1)

\* What a step leaves behind besides the files: the invocation's position,
\* the lines printed, the requests issued and the exceptions raised.
Effect(st, lg, rq, rs) == [st |-> st, log |-> lg, requests |-> rq, raised |-> rs]

\* process_href goes on with anchor k: it calls process_abstract, which
\* issues the abstract fetch; or it returns; or link["href"] raises and its
\* except clause prints and returns.
Resume(i, st, k, lg, rq, rs) ==
    LET r == HrefLoop(st.links, k)
        abs_url == Url(st.links[r.k].href)
    IN  CASE r.kind = "paper" ->
               Effect([st EXCEPT !.pc = "abstract", !.k = r.k,
                                 !.paper = [NoPaper EXCEPT !.abs_url = abs_url]],
                      lg,
                      rq \cup {Request(i, r.k, "abstract", abs_url, fetch_agent)},
                      rs)
          [] r.kind = "end" ->
               Effect([st EXCEPT !.pc = "done", !.k = r.k, !.paper = NoPaper],
                      lg, rq, rs)
          [] OTHER ->
               Effect([st EXCEPT !.pc = "done", !.k = r.k, !.paper = NoPaper],
                      print_line(lg, "Error processing href", tasks[i].url),
                      rq, rs \cup {Raised(i, r.k, "href")})

\* Variant of AbstractFailed: process_abstract has no except clause, the
\* exception reaches the one of process_href.
AbstractFailedUncaught(i) ==
    Effect([inv[i] EXCEPT !.pc = "done", !.paper = NoPaper],
           print_line(log, "Error processing href", tasks[i].url),
           requests, raised \cup {Raised(i, inv[i].k, inv[i].pc)})

\* except Exception of process_abstract: print, return to process_href.
AbstractFailed(i) ==
    Resume(i, inv[i], inv[i].k + 1,
           print_line(log, "Error processing abstract", inv[i].paper.abs_url),
           requests, raised \cup {Raised(i, inv[i].k, inv[i].pc)})

\* except Exception of process_bib_and_pdf: print, return to
\* process_abstract, which returns to process_href.
BibFailed(i) ==
    Resume(i, inv[i], inv[i].k + 1,
           print_line(log, "Error processing bib and PDF", inv[i].paper.bib_url),
           requests, raised \cup {Raised(i, inv[i].k, inv[i].pc)})

\* except Exception of process_href around its own fetch: print, return.
HrefFailed(i) ==
    Effect([inv[i] EXCEPT !.pc = "done"],
           print_line(log, "Error processing href", tasks[i].url),
           requests, raised \cup {Raised(i, 0, inv[i].pc)})

\* "if pdf_link:" and "if pdf_url:" have no else: return without a line.
Skipped(i) == Resume(i, inv[i], inv[i].k + 1, log, requests, raised)

\* The pipeline of invocation i goes on to its next await.
Proceed(i, st, rq) ==
    Effect([st EXCEPT !.pc = NextStep(inv[i].pc)], log, rq, raised)

Apply(i, e) ==
    /\ inv' = [inv EXCEPT ![i] = e.st]
    /\ log' = e.log
    /\ requests' = e.requests
    /\ raised' = e.raised

\* Variant of HrefStart: main awaits the tasks one by one, task i starts
\* when the tasks before it are done.
HrefStartInTurn(i) ==
    /\ main_pc = "gather"
    /\ inv[i].pc = "created"
    /\ \A j \in 1..(i - 1) : inv[j].pc = "done"
    /\ inv' = [inv EXCEPT ![i].pc = "listing"]
    /\ requests' = requests \cup {Request(i, 0, "listing", tasks[i].url, fetch_agent)}
    /\ UNCHANGED <<call, index, main_pc, tasks, dirs, files, log, consumed, writes,
                   raised, faults>>

\* The event loop starts task i: process_href runs to its fetch.
HrefStart(i) ==
    /\ main_pc = "gather"
    /\ inv[i].pc = "created"
    /\ inv' = [inv EXCEPT ![i].pc = "listing"]
    /\ requests' = requests \cup {Request(i, 0, "listing", tasks[i].url, fetch_agent)}
    /\ UNCHANGED <<call, index, main_pc, tasks, dirs, files, log, consumed, writes,
                   raised, faults>>

\* The listing page answers.
HrefResponse(i) ==
    /\ inv[i].pc = "listing"
    /\ \E o \in HttpOutcomes :
        /\ Allowed(o)
        /\ faults' = Charge(o)
        /\ IF fetch_raises(o)
           THEN /\ Apply(i, HrefFailed(i))
                /\ UNCHANGED consumed
           ELSE /\ Apply(i, Resume(i, [inv[i] EXCEPT
                                         !.links = BodyOf(tasks[i].url, o).page.anchors],
                                   1, log, requests, raised))
                /\ consumed' = consumed \cup
                       {Used(i, 0, "listing", tasks[i].url, StatusOf(tasks[i].url, o))}
    /\ UNCHANGED <<call, index, main_pc, tasks, dirs, files, writes>>

\* The abstract page answers: select_one, pdf_link["href"], and the call of
\* process_bib_and_pdf up to its fetch.
AbstractResponse(i) ==
    /\ inv[i].pc = "abstract"
    /\ \E o \in HttpOutcomes :
        /\ Allowed(o)
        /\ faults' = Charge(o)
        /\ LET url == inv[i].paper.abs_url
               buttons == BodyOf(url, o).page.buttons
               pdf_link == IF buttons = <<>> THEN None ELSE buttons[1]
               bib_url == Url(pdf_link.href)
           IN  IF fetch_raises(o)
               THEN /\ Apply(i, AbstractFailed(i))
                    /\ UNCHANGED consumed
               ELSE /\ consumed' = consumed \cup
                           {Used(i, inv[i].k, "abstract", url, StatusOf(url, o))}
                    /\ IF ~pdf_link_found(pdf_link) THEN Apply(i, Skipped(i))
                       ELSE IF ~pdf_link.has_href THEN Apply(i, AbstractFailed(i))
                       ELSE Apply(i, Proceed(i,
                                [inv[i] EXCEPT !.paper.bib_url = bib_url],
                                requests \cup {Request(i, inv[i].k, "bib", bib_url,
                                                       fetch_agent)}))
    /\ UNCHANGED <<call, index, main_pc, tasks, dirs, files, writes>>

\* Variant of BibParse: the PDF is named after the title, as the comment
\* above line 87 says.
BibParseTitleName(bib_text) ==
    LET bib_fields == extract_all_bib_fields(bib_text)
        title == DictGet(bib_fields, KeyTitle, Unknown_Title)
    IN  [pdf_url |-> extract_pdf_url(bib_text),
         bib_fields |-> bib_fields,
         pdf_file_name |-> sanitize_filename(title) \o PdfExt,
         json_file_name |-> sanitize_filename(title) \o JsonExt]

\* What process_bib_and_pdf derives from the .bib text alone: the PDF URL,
\* the fields and the two file names.
BibParse(bib_text) ==
    LET bib_fields == extract_all_bib_fields(bib_text)
        title == DictGet(bib_fields, KeyTitle, Unknown_Title)
        booktitle == DictGet(bib_fields, KeyBooktitle, Unknown_Booktitle)
        author == DictGet(bib_fields, KeyAuthor, Unknown_Author)
    IN  [pdf_url |-> extract_pdf_url(bib_text),
         bib_fields |-> bib_fields,
         pdf_file_name |-> sanitize_filename(booktitle) \o <<"_">>
                               \o sanitize_filename(author) \o PdfExt,
         json_file_name |-> sanitize_filename(title) \o JsonExt]

\* BibParse of every text the site can answer a .bib request with, computed
\* once.
ParsedBib == [t \in BibTexts |-> BibParse(t)]

\* Variant of BibPaths: the pdf folder is made per title, not per identifier.
BibPathsFolderPerPaper(parsed, folder_path, folder_name) ==
    LET pdf_folder_path == PathJoin(folder_path, PdfDir \o parsed.json_file_name)
        json_folder_path == PathJoin(folder_path, JsonDirPrefix \o folder_name)
    IN  [pdf_url |-> parsed.pdf_url,
         bib_fields |-> parsed.bib_fields,
         pdf_folder_path |-> pdf_folder_path,
         json_folder_path |-> json_folder_path,
         pdf_file_path |-> PathJoin(pdf_folder_path, parsed.pdf_file_name),
         json_file_path |-> PathJoin(json_folder_path, parsed.json_file_name)]

\* The folder and file paths of lines 79 to 99 for the parsed .bib text.
BibPaths(parsed, folder_path, folder_name) ==
    LET pdf_folder_path == PathJoin(folder_path, PdfDir)
        json_folder_path == PathJoin(folder_path, JsonDirPrefix \o folder_name)
    IN  [pdf_url |-> parsed.pdf_url,
         bib_fields |-> parsed.bib_fields,
         pdf_folder_path |-> pdf_folder_path,
         json_folder_path |-> json_folder_path,
         pdf_file_path |-> PathJoin(pdf_folder_path, parsed.pdf_file_name),
         json_file_path |-> PathJoin(json_folder_path, parsed.json_file_name)]

\* What process_bib_and_pdf derives before it creates the folders (lines 64
\* to 99, the awaits left out).
BibPlan(bib_text, folder_path, folder_name) ==
    BibPaths(ParsedBib[bib_text], folder_path, folder_name)

\* Variant of bib_data_with_url: the assignment of line 96 is missing.
bib_data_without_url(bib_fields, pdf_url) == bib_fields

\* bib_data = bib_fields; bib_data["url"] = pdf_url
bib_data_with_url(bib_fields, pdf_url) == DictSet(bib_fields, KeyUrl, pdf_url)

\* process_bib_and_pdf after its fetch, with the outcome o of the fetch and
\* m of the two makedirs, and plan what it derived from the answer.
AfterBib(i, o, m, url, k, plan) ==
    IF fetch_raises(o)
    THEN /\ m = "ok"
         /\ Apply(i, BibFailed(i))
         /\ UNCHANGED <<consumed, dirs, writes>>
    ELSE /\ consumed' = consumed \cup {Used(i, k, "bib", url, StatusOf(url, o))}
         /\ IF ~pdf_url_found(plan.pdf_url)
            THEN /\ m = "ok"
                 /\ Apply(i, Skipped(i))
                 /\ UNCHANGED <<dirs, writes>>
            ELSE IF m = "raise"
            THEN /\ Apply(i, BibFailed(i))
                 /\ UNCHANGED <<dirs, writes>>
            ELSE /\ dirs' = makedirs(makedirs(dirs, plan.pdf_folder_path),
                                     plan.json_folder_path)
                 /\ writes' = writes \cup
                      {Wrote(i, k, inv[i].paper.abs_url, "makedirs",
                             plan.pdf_folder_path),
                       Wrote(i, k, inv[i].paper.abs_url, "makedirs",
                             plan.json_folder_path)}
                 /\ Apply(i, Proceed(i,
                      [inv[i] EXCEPT
                         !.paper.pdf_url = plan.pdf_url,
                         !.paper.bib_data = plan.bib_fields,
                         !.paper.pdf_file_path = plan.pdf_file_path,
                         !.paper.json_file_path = plan.json_file_path],
                      requests \cup {Request(i, k, "pdf", plan.pdf_url,
                                             download_agent)}))

\* The .bib answers: extraction, the two makedirs, and download_pdf up to
\* its session.get.
BibResponse(i) ==
    /\ inv[i].pc = "bib"
    /\ \E o \in HttpOutcomes, m \in IoOutcomes :
        /\ Allowed(o)
        /\ Allowed(m)
        /\ o = "ok" \/ m = "ok"
        /\ faults' = IF o = "ok" THEN Charge(m) ELSE Charge(o)
        /\ AfterBib(i, o, m, inv[i].paper.bib_url, inv[i].k,
                    BibPlan(BodyOf(inv[i].paper.bib_url, o).text,
                            tasks[i].folder_path, tasks[i].folder_name))
    /\ UNCHANGED <<call, index, main_pc, tasks, files>>

\* session.get(url) of download_pdf answers; aio_open(file_path, "wb") starts.
PdfGetResponse(i) ==
    /\ inv[i].pc = "pdf_get"
    /\ \E o \in HttpOutcomes :
        /\ Allowed(o)
        /\ faults' = Charge(o)
        /\ IF fetch_raises(o)
           THEN Apply(i, BibFailed(i))
           ELSE Apply(i, Proceed(i,
                    [inv[i] EXCEPT
                       !.paper.pdf_status = StatusOf(inv[i].paper.pdf_url, o)],
                    requests))
    /\ UNCHANGED <<call, index, main_pc, tasks, dirs, files, consumed, writes>>

\* aio_open(file_path, "wb") ends: the file exists and is empty.
PdfOpen(i) ==
    /\ inv[i].pc = "pdf_open"
    /\ \E o \in IoOutcomes :
        /\ Allowed(o)
        /\ faults' = Charge(o)
        /\ LET p == inv[i].paper
           IN  IF o = "raise" \/ ~CanOpen(p.pdf_file_path)
               THEN /\ Apply(i, BibFailed(i))
                    /\ UNCHANGED <<files, writes>>
               ELSE /\ files' = SetFile(files, p.pdf_file_path, <<>>)
                    /\ writes' = writes \cup
                           {Wrote(i, inv[i].k, p.abs_url, "pdf_open", p.pdf_file_path)}
                    /\ Apply(i, Proceed(i, inv[i], requests))
    /\ UNCHANGED <<call, index, main_pc, tasks, dirs, consumed>>

\* f.write(await response.read()) and the close end; "Downloaded PDF" is
\* printed, the url is put into bib_data and aio_open(json_file_path) starts.
PdfWrite(i) ==
    /\ inv[i].pc = "pdf_write"
    /\ \E o \in IoOutcomes :
        /\ Allowed(o)
        /\ faults' = Charge(o)
        /\ LET p == inv[i].paper
               body == IF p.pdf_status = 200 THEN Site(p.pdf_url).body
                       ELSE ErrorResource.body
               e == Proceed(i, [inv[i] EXCEPT !.paper.bib_data =
                                    bib_data_with_url(p.bib_data, p.pdf_url)],
                            requests)
           IN  IF o = "raise"
               THEN /\ Apply(i, BibFailed(i))
                    /\ UNCHANGED <<files, consumed, writes>>
               ELSE /\ files' = SetFile(files, p.pdf_file_path,
                                        WriteFromStart(files[p.pdf_file_path], body))
                    /\ consumed' = consumed \cup
                           {Used(i, inv[i].k, "pdf", p.pdf_url, p.pdf_status)}
                    /\ writes' = writes \cup
                           {Wrote(i, inv[i].k, p.abs_url, "pdf_write", p.pdf_file_path)}
                    /\ Apply(i, [e EXCEPT !.log =
                           print_line(log, "Downloaded PDF", p.pdf_file_path)])
    /\ UNCHANGED <<call, index, main_pc, tasks, dirs>>

\* aio_open(json_file_path, "w") ends: the file exists and is empty.
JsonOpen(i) ==
    /\ inv[i].pc = "json_open"
    /\ \E o \in IoOutcomes :
        /\ Allowed(o)
        /\ faults' = Charge(o)
        /\ LET p == inv[i].paper
           IN  IF o = "raise" \/ ~CanOpen(p.json_file_path)
               THEN /\ Apply(i, BibFailed(i))
                    /\ UNCHANGED <<files, writes>>
               ELSE /\ files' = SetFile(files, p.json_file_path, <<>>)
                    /\ writes' = writes \cup
                           {Wrote(i, inv[i].k, p.abs_url, "json_open", p.json_file_path)}
                    /\ Apply(i, Proceed(i, inv[i], requests))
    /\ UNCHANGED <<call, index, main_pc, tasks, dirs, consumed>>

\* f.write(json.dumps(bib_data, indent=4)) and the close end; "Saved JSON"
\* is printed and the calls return to the loop of process_href.
JsonWrite(i) ==
    /\ inv[i].pc = "json_write"
    /\ \E o \in IoOutcomes :
        /\ Allowed(o)
        /\ faults' = Charge(o)
        /\ LET p == inv[i].paper
           IN  IF o = "raise"
               THEN /\ Apply(i, BibFailed(i))
                    /\ UNCHANGED <<files, writes>>
               ELSE /\ files' = SetFile(files, p.json_file_path,
                                        WriteFromStart(files[p.json_file_path],
                                                       json_dumps(p.bib_data)))
                    /\ writes' = writes \cup
                           {Wrote(i, inv[i].k, p.abs_url, "json_write", p.json_file_path)}
                    /\ Apply(i, Resume(i, inv[i], inv[i].k + 1,
                                       print_line(log, "Saved JSON", p.json_file_path),
                                       requests, raised))
    /\ UNCHANGED <<call, index, main_pc, tasks, dirs, consumed>>

(* ---------------------------------------------------------------------- *)
(* The specification.                                                      *)
(* ---------------------------------------------------------------------- *)

Init ==
    /\ index \in IndexPages
    /\ main_pc = "start"
    /\ tasks = <<>>
    /\ inv = <<>>
    /\ dirs = {}
    /\ files = <<>>
    /\ log = EmptyBag
    /\ requests = {}
    /\ consumed = {}
    /\ writes = {}
    /\ raised = {}
    /\ faults = 0
    /\ call = NoCall

Next ==
    \/ MainStart
    \/ MainIndexResponse
    \/ MainReturn
    \/ \E i \in DOMAIN inv : HrefStart(i)
    \/ \E i \in DOMAIN inv : HrefResponse(i)
    \/ \E i \in DOMAIN inv : AbstractResponse(i)
    \/ \E i \in DOMAIN inv : BibResponse(i)
    \/ \E i \in DOMAIN inv : PdfGetResponse(i)
    \/ \E i \in DOMAIN inv : PdfOpen(i)
    \/ \E i \in DOMAIN inv : PdfWrite(i)
    \/ \E i \in DOMAIN inv : JsonOpen(i)
    \/ \E i \in DOMAIN inv : JsonWrite(i)

Spec == Init /\ [][Next]_vars

(* ---------------------------------------------------------------------- *)
(* Notions the properties share.                                           *)
(* ---------------------------------------------------------------------- *)

IsPaperLink(a) == a.has_href /\ StartsWith(a.href, PAPER_PREFIX)

\* The pipeline of anchor k of invocation i was started: its abstract page
\* was requested.
Attempted(i, k) ==
    \E q \in requests : q.inv = i /\ q.k = k /\ q.kind = "abstract"

\* The URL invocation i requested for anchor k as the given kind.
RequestedUrl(i, k, kind) ==
    (CHOOSE q \in requests : q.inv = i /\ q.k = k /\ q.kind = kind).url

\* The text a used response came with.
TextOf(c) == IF c.status = 200 THEN Site(c.url).text ELSE ErrorText

PageOf(c) == IF c.status = 200 THEN Site(c.url).page ELSE ErrorResource.page

\* The steps of process_bib_and_pdf and download_pdf.
BibSteps == {"bib", "pdf_get", "pdf_open", "pdf_write", "json_open", "json_write"}

ErrorPrinted(r) ==
    CASE r.at = "abstract" ->
           Printed("Error processing abstract", RequestedUrl(r.inv, r.k, "abstract")) >= 1
      [] r.at \in BibSteps ->
           Printed("Error processing bib and PDF", RequestedUrl(r.inv, r.k, "bib")) >= 1
      [] OTHER ->
           Printed("Error processing href", tasks[r.inv].url) >= 1

\* The anchors of the listing of invocation i that process_href reaches:
\* those before the first anchor without href.
Reached(i) ==
    {k \in DOMAIN inv[i].links :
        \A j \in 1..k : inv[i].links[j].has_href}

(* ---------------------------------------------------------------------- *)
(* C1, as amended.  Failure isolation.  An exception raised in             *)
(* process_abstract or process_bib_and_pdf is caught there and logged,     *)
(* only that paper's remaining steps are dropped and the later papers of   *)
(* the listing still run.  An exception raised in process_href itself      *)
(* (the listing fetch, link["href"]) is caught by process_href and logged, *)
(* and ends that invocation: the papers after it in the listing are not    *)
(* processed.  Sibling invocations go on either way, and no exception of   *)
(* an invocation makes main() fail.                                        *)
(* ---------------------------------------------------------------------- *)
C1_FailureIsolation ==
    /\ \A r \in raised : r.inv > 0 => ErrorPrinted(r)
    /\ \A i \in DOMAIN inv :
         inv[i].pc = "done" =>
           \A k \in Reached(i) : IsPaperLink(inv[i].links[k]) => Attempted(i, k)
    /\ main_pc = "failed" => \A r \in raised : r.inv = 0

\* A paper's pipeline raised, a later paper of the same listing was started
\* all the same, and main() has returned.
C1_Witness ==
    /\ main_pc = "done"
    /\ \E r \in raised :
         /\ r.inv > 0
         /\ r.at \in BibSteps \cup {"abstract"}
         /\ \E k \in DOMAIN inv[r.inv].links : k > r.k /\ Attempted(r.inv, k)

\* C1 as claimed: whatever was raised in an invocation, process_href
\* included, every other paper of the same listing still runs.
C1_AsClaimed ==
    \A i \in DOMAIN inv :
      inv[i].pc = "done" =>
        \A k \in DOMAIN inv[i].links :
          IsPaperLink(inv[i].links[k]) => Attempted(i, k)

(* ---------------------------------------------------------------------- *)
(* C2.  main() launches every invocation it enqueued and returns only      *)
(* when each of them has finished: once main() has returned, no            *)
(* invocation is unstarted or in progress.                                 *)
(* ---------------------------------------------------------------------- *)
C2_MainWaitsForAll ==
    main_pc = "done" =>
      /\ Len(inv) = Len(tasks)
      /\ \A i \in DOMAIN inv : inv[i].pc = "done"

\* main() has returned from a run with two invocations, one of which failed.
C2_Witness ==
    /\ main_pc = "done"
    /\ Len(inv) = 2
    /\ \E r \in raised : r.inv > 0

(* ---------------------------------------------------------------------- *)
(* C3.  Within one paper's pipeline the steps are strictly ordered: the    *)
(* abstract fetch has ended when the .bib fetch starts, the .bib fetch     *)
(* when the PDF download starts, the PDF write when the JSON write starts; *)
(* "Downloaded PDF" and "Saved JSON" are printed only by the step that     *)
(* has completed the write.                                                *)
(* ---------------------------------------------------------------------- *)
StepBefore ==
    [bib |-> "abstract", pdf_get |-> "bib", pdf_open |-> "pdf_get",
     pdf_write |-> "pdf_open", json_open |-> "pdf_write",
     json_write |-> "json_open"]

\* What has been completed for anchor k of invocation i once the pipeline
\* waits at pc (read in the state after the step).
CompletedAt(i, k, pc) ==
    CASE pc = "bib" ->
           \E c \in consumed' : c.inv = i /\ c.k = k /\ c.as = "abstract"
      [] pc = "pdf_get" ->
           \E c \in consumed' : c.inv = i /\ c.k = k /\ c.as = "bib"
      [] pc = "json_open" ->
           \E w \in writes' : w.inv = i /\ w.k = k /\ w.op = "pdf_write"
      [] pc = "json_write" ->
           \E w \in writes' : w.inv = i /\ w.k = k /\ w.op = "json_open"
      [] OTHER -> TRUE

NewLines(msg) ==
    {l \in BagToSet(log') : l.msg = msg /\ CopiesIn(l, log') > CopiesIn(l, log)}

C3_OrderedStep ==
    /\ \A i \in DOMAIN inv :
         (inv'[i].pc # inv[i].pc /\ inv'[i].pc \in DOMAIN StepBefore) =>
            /\ inv[i].pc = StepBefore[inv'[i].pc]
            /\ inv'[i].k = inv[i].k
            /\ CompletedAt(i, inv[i].k, inv'[i].pc)
    /\ \A l \in NewLines("Downloaded PDF") :
         \E i \in DOMAIN inv :
            /\ inv[i].pc = "pdf_write"
            /\ inv[i].paper.pdf_file_path = l.arg
            /\ \E w \in writes' : w.inv = i /\ w.k = inv[i].k /\ w.op = "pdf_write"
            /\ l.arg \in DOMAIN files'
    /\ \A l \in NewLines("Saved JSON") :
         \E i \in DOMAIN inv :
            /\ inv[i].pc = "json_write"
            /\ inv[i].paper.json_file_path = l.arg
            /\ \E w \in writes' : w.inv = i /\ w.k = inv[i].k /\ w.op = "json_write"
            /\ l.arg \in DOMAIN files'

C3_PipelineOrder == [][C3_OrderedStep]_vars

\* A pipeline has run to its end: its JSON is written and the line printed.
C3_Witness ==
    \E w \in writes : w.op = "json_write" /\ Printed("Saved JSON", w.path) >= 1

(* ---------------------------------------------------------------------- *)
(* C4.  A .bib body from which no PDF URL can be extracted leads to no     *)
(* file write for that paper: no PDF, no JSON, and neither makedirs.       *)
(* ---------------------------------------------------------------------- *)
C4_NoPdfUrlNoWrites ==
    \A c \in consumed :
      (c.as = "bib" /\ ParsedBib[TextOf(c)].pdf_url = None) =>
         \A w \in writes : ~(w.inv = c.inv /\ w.k = c.k)

\* A .bib body without PDF URL was handled, and the invocation is past it.
C4_Witness ==
    \E c \in consumed :
      /\ c.as = "bib"
      /\ c.status = 200
      /\ ParsedBib[TextOf(c)].pdf_url = None
      /\ inv[c.inv].k > c.k

(* ---------------------------------------------------------------------- *)
(* C5, as claimed.  Every paper skipped for missing content has an error   *)
(* line: one for an abstract page without PDF button, exactly one naming   *)
(* the .bib URL for a .bib body without PDF URL.  The code has no else     *)
(* branch at either test and prints nothing.                               *)
(* ---------------------------------------------------------------------- *)
C5_SkipIsLogged ==
    \A c \in consumed :
      /\ (c.as = "abstract" /\ PageOf(c).buttons = <<>>) =>
            Printed("Error processing abstract", c.url) >= 1
      /\ (c.as = "bib" /\ ParsedBib[TextOf(c)].pdf_url = None) =>
            Printed("Error processing bib and PDF", c.url) = 1

(* ---------------------------------------------------------------------- *)
(* C6, as claimed.  A non-2xx answer is a fetch failure: its body is never *)
(* parsed as a page or a .bib and never written to a PDF file.  fetch and  *)
(* download_pdf do not look at the status, so the body is used.            *)
(* ---------------------------------------------------------------------- *)
C6_Non2xxIsFailure == \A c \in consumed : c.status = 200

(* ---------------------------------------------------------------------- *)
(* C7, as claimed.  Every request of a run carries the fixed User-Agent.   *)
(* download_pdf calls session.get(url) without headers.                    *)
(* ---------------------------------------------------------------------- *)
C7_UserAgentOnEveryRequest == \A q \in requests : q.agent = USER_AGENT

(* ---------------------------------------------------------------------- *)
(* C8.  The end-to-end scenario of one index link.                         *)
(* ---------------------------------------------------------------------- *)

\* Whether text t ends with literal lit.
EndsWith(t, lit) == LitAt(t, lit, Len(t) - Len(lit) + 1)

\* The index page has exactly one list-item link with the paper-listing
\* prefix, and its href is h.
OneIndexLink(h) ==
    /\ \A j \in DOMAIN index : index[j].has_href
    /\ Cardinality({j \in DOMAIN index : IsPaperLink(index[j])}) = 1
    /\ \E j \in DOMAIN index : index[j] = Anchor(h)

\* The run has ended and every request and file operation went well.
CleanRun == main_pc = "done" /\ faults = 0

IdentifierL1 ==
    <<"2","0","2","1">>

IdentifierP1 ==
    <<"2","0","2","1","/","h","a","s","h","/","a","b","c">>

PdfPathL1P1 ==
    <<"D",":","/","d","s","/","2","0","2","1","/","p","d","f","/","B","_","A",".","p","d","f">>

JsonPathL1P1 ==
    <<"D",":","/","d","s","/","2","0","2","1","/","j","s","o","n","_","2","0","2","1","/","T",".","j","s","o","n">>

PdfNameP1 ==
    <<"B","_","A",".","p","d","f">>

JsonNameP1 ==
    <<"T",".","j","s","o","n">>

\* The fields of the .bib body of the scenario, with the PDF URL.
FieldsP1 ==
    <<<<KeyTitle, <<"T">>>>, <<KeyAuthor, <<"A">>>>, <<KeyBooktitle, <<"B">>>>,
      <<KeyUrl, PdfUrl1>>>>

\* The site holds the scenario: the page at HrefP1 is an abstract page with
\* a PDF button whose target answers the .bib body of the scenario, and the
\* listing page at HrefL1 links to it.
ScenarioOnSite ==
    /\ Site(Url(HrefP1)).page.buttons = <<Anchor(HrefBib1)>>
    /\ Site(Url(HrefBib1)).text = BibText1
    /\ \E k \in DOMAIN Site(Url(HrefL1)).page.anchors :
          Site(Url(HrefL1)).page.anchors[k] = Anchor(HrefP1)

BibOf(i, k) == CHOOSE c \in consumed : c.inv = i /\ c.k = k /\ c.as = "bib"

FieldsOf(i, k) == ParsedBib[TextOf(BibOf(i, k))].bib_fields

SameNames(w1, w2) ==
    /\ sanitize_filename(DictGet(FieldsOf(w1.inv, w1.k), KeyBooktitle, Unknown_Booktitle))
       = sanitize_filename(DictGet(FieldsOf(w2.inv, w2.k), KeyBooktitle, Unknown_Booktitle))
    /\ sanitize_filename(DictGet(FieldsOf(w1.inv, w1.k), KeyAuthor, Unknown_Author))
       = sanitize_filename(DictGet(FieldsOf(w2.inv, w2.k), KeyAuthor, Unknown_Author))

PdfOpens == {w \in writes : w.op = "pdf_open"}

\* The bytes download_pdf of invocation i writes.
DownloadedBody(i) ==
    IF inv[i].paper.pdf_status = 200 THEN Site(inv[i].paper.pdf_url).body
    ELSE ErrorResource.body

C9_SamePath ==
    \A w1, w2 \in PdfOpens :
      (/\ w1.paper # w2.paper
       /\ SameNames(w1, w2)
       /\ tasks[w1.inv].folder_name = tasks[w2.inv].folder_name)
      => w1.path = w2.path

C9_Overwrite ==
    \A i \in DOMAIN inv :
      LET path == inv[i].paper.pdf_file_path
      IN  /\ (/\ inv[i].pc = "pdf_open"
              /\ inv'[i] # inv[i]
              /\ faults' = faults
              /\ path \in DOMAIN files)
             => (inv'[i].pc = "pdf_write" /\ files'[path] = <<>>)
          /\ (/\ inv[i].pc = "pdf_write"
              /\ inv'[i] # inv[i]
              /\ faults' = faults)
             => /\ inv'[i].pc = "json_open"
                /\ StartsWith(files'[path], DownloadedBody(i))
                /\ files[path] = <<>> => files'[path] = DownloadedBody(i)

ExpectedJsonData(fields, pdf_url) ==
    [j \in 1..Len(fields) |->
        IF fields[j][1] = KeyUrl THEN <<KeyUrl, pdf_url>> ELSE fields[j]]
    \o (IF \E j \in 1..Len(fields) : fields[j][1] = KeyUrl THEN <<>>
        ELSE <<<<KeyUrl, pdf_url>>>>)

C10_JsonStep ==
    \A i \in DOMAIN inv :
      (inv[i].pc = "json_write" /\ inv'[i] # inv[i] /\ faults' = faults) =>
        LET k == inv[i].k
            path == inv[i].paper.json_file_path
            used_url == RequestedUrl(i, k, "pdf")
            text == TextOf(BibOf(i, k))
            dump == json_dumps(ExpectedJsonData(ParsedBib[text].bib_fields, used_url))
        IN  /\ used_url = ParsedBib[text].pdf_url
            /\ StartsWith(files'[path], dump)
            /\ Len(files[path]) <= Len(dump) => files'[path] = dump

C10_JsonHoldsFieldsAndUrl == [][C10_JsonStep]_vars

\* A JSON was written for a paper whose bulk extraction gave another url
\* than the PDF-URL lookup.
C10_Witness ==
    \E w \in writes :
      /\ w.op = "json_write"
      /\ DictHas(FieldsOf(w.inv, w.k), KeyUrl)
      /\ DictGet(FieldsOf(w.inv, w.k), KeyUrl, None)
           # ParsedBib[TextOf(BibOf(w.inv, w.k))].pdf_url

(* ---------------------------------------------------------------------- *)
(* C11.  A file write into pdf/ or json_<identifier>/ starts only after    *)
(* that directory was created, and creating a directory that exists is not *)
(* an error: the creation for a later paper of the same identifier does    *)
(* not fail.                                                               *)
(* ---------------------------------------------------------------------- *)

FileOps == {"pdf_open", "pdf_write", "json_open", "json_write"}

\* Every file a pipeline opened or wrote lies in a directory that exists and
\* that the same pipeline made before; a pipeline that stands before a file
\* operation has its directory.
C11_DirsExist ==
    /\ \A w \in writes :
         w.op \in FileOps =>
           /\ Parent(w.path) \in dirs
           /\ \E d \in writes :
                /\ d.op = "makedirs"
                /\ d.inv = w.inv
                /\ d.k = w.k
                /\ d.path = Parent(w.path)
    /\ \A i \in DOMAIN inv :
         /\ inv[i].pc \in {"pdf_get", "pdf_open", "pdf_write"} =>
              Parent(inv[i].paper.pdf_file_path) \in dirs
         /\ inv[i].pc \in {"pdf_get", "pdf_open", "pdf_write", "json_open",
                           "json_write"} =>
              Parent(inv[i].paper.json_file_path) \in dirs

\* A step in which nothing goes wrong: the two makedirs succeed whether or
\* not the directories exist and leave every directory in place, and no
\* open fails for a missing directory.
C11_Step ==
    \A i \in DOMAIN inv :
      (inv'[i] # inv[i] /\ faults' = faults) =>
        /\ (/\ inv[i].pc = "bib"
            /\ ParsedBib[Site(inv[i].paper.bib_url).text].pdf_url # None)
           => /\ inv'[i].pc = "pdf_get"
              /\ dirs \subseteq dirs'
              /\ Parent(inv'[i].paper.pdf_file_path) \in dirs'
              /\ Parent(inv'[i].paper.json_file_path) \in dirs'
        /\ inv[i].pc \in {"pdf_open", "json_open"} =>
              inv'[i].pc = NextStep(inv[i].pc)

C11_DirectoriesFirst == []C11_DirsExist /\ [][C11_Step]_vars

\* Two papers made the same directory, and the later one went on to open
\* its file in it.
C11_Witness ==
    \E d1, d2, w \in writes :
      /\ d1.op = "makedirs"
      /\ d2.op = "makedirs"
      /\ d1.path = d2.path
      /\ <<d1.inv, d1.k>> # <<d2.inv, d2.k>>
      /\ d1.inv = d2.inv
      /\ d1.k < d2.k
      /\ w.op = "pdf_open"
      /\ w.inv = d2.inv
      /\ w.k = d2.k

(* ---------------------------------------------------------------------- *)
(* The helper functions called on their own.                               *)
(* ---------------------------------------------------------------------- *)

\* The longest file name given to sanitize_filename.
MaxNameLen == 3

\* The most fields a .bib text given to the extractors declares.
MaxFields == 3

NameChars == UnsafeChars \cup {"a", "_", " "}

Names == UNION {[1..n -> NameChars] : n \in 0..MaxNameLen}

FieldKeys == {KeyUrl, KeyTitle, <<"f","i","l","e">>}

HttpPdf == <<"h","t","t","p",":","/","/","x","/","y",".","p","d","f">>

HttpsPdf == <<"h","t","t","p","s",":","/","/","x","/","y",".","p","d","f">>

PlainValues == {<<"T">>, <<" ", "T", " ">>, <<"z",".","p","d","f">>}

FieldValues == PlainValues \cup {<<>>, <<"{", "D", "}">>, HttpPdf, HttpsPdf}

Declarations ==
    UNION {[1..n -> FieldKeys \X FieldValues] : n \in 0..MaxFields}

\* The text of a sequence of declarations:  key = {value}  lines.
RECURSIVE Render(_)
Render(decl) ==
    IF decl = <<>> THEN <<>>
    ELSE Head(decl)[1] \o <<" ", "=", " ", "{">> \o Head(decl)[2] \o <<"}">>
         \o (IF Len(decl) > 1 THEN <<"\n">> ELSE <<>>)
         \o Render(Tail(decl))

NewCall(fn, arg, decl) ==
    [fn |-> fn, arg |-> arg, decl |-> decl, stage |-> 0, result |-> None,
     again |-> None]

Calls ==
    {NewCall("sanitize_filename", s, <<>>) : s \in Names}
    \cup {NewCall(fn, Render(d), d) :
             fn \in {"extract_pdf_url", "extract_all_bib_fields"},
             d \in Declarations}

\* The program does not run.
Idle ==
    /\ index = <<>>
    /\ main_pc = "start"
    /\ tasks = <<>>
    /\ inv = <<>>
    /\ dirs = {}
    /\ files = <<>>
    /\ log = EmptyBag
    /\ requests = {}
    /\ consumed = {}
    /\ writes = {}
    /\ raised = {}
    /\ faults = 0

FnInit == Idle /\ call \in Calls

Returned(value) ==
    /\ call' = [call EXCEPT !.stage = 1, !.result = value]
    /\ UNCHANGED <<index, main_pc, tasks, inv, dirs, files, log, requests,
                   consumed, writes, raised, faults>>

CallSanitize ==
    /\ call.fn = "sanitize_filename"
    /\ call.stage = 0
    /\ Returned(sanitize_filename(call.arg))

\* sanitize_filename on its own result.
CallSanitizeAgain ==
    /\ call.fn = "sanitize_filename"
    /\ call.stage = 1
    /\ call' = [call EXCEPT !.stage = 2, !.again = sanitize_filename(call.result)]
    /\ UNCHANGED <<index, main_pc, tasks, inv, dirs, files, log, requests,
                   consumed, writes, raised, faults>>

CallExtractPdfUrl ==
    /\ call.fn = "extract_pdf_url"
    /\ call.stage = 0
    /\ Returned(extract_pdf_url(call.arg))

CallExtractAllBibFields ==
    /\ call.fn = "extract_all_bib_fields"
    /\ call.stage = 0
    /\ Returned(extract_all_bib_fields(call.arg))

FnNext ==
    \/ CallSanitize
    \/ CallSanitizeAgain
    \/ CallExtractPdfUrl
    \/ CallExtractAllBibFields

FnSpec == FnInit /\ [][FnNext]_vars

(* ---------------------------------------------------------------------- *)
(* C12.  sanitize_filename(s) has none of the characters \ / : * ? " < > | *)
(* : each of them in s is replaced by one underscore, every other          *)
(* character is kept, and sanitizing the result again changes nothing.     *)
(* ---------------------------------------------------------------------- *)

ForbiddenChars == {"\\", "/", ":", "*", "?", "\"", "<", ">", "|"}

C12_Sanitize ==
    (call.fn = "sanitize_filename" /\ call.stage >= 1) =>
      /\ Len(call.result) = Len(call.arg)
      /\ \A j \in 1..Len(call.arg) :
           /\ call.result[j] \notin ForbiddenChars
           /\ call.arg[j] \in ForbiddenChars => call.result[j] = "_"
           /\ call.arg[j] \notin ForbiddenChars => call.result[j] = call.arg[j]
      /\ call.stage = 2 => call.again = call.result

\* A name with a forbidden and a harmless character was sanitized twice.
C12_Witness ==
    /\ call.fn = "sanitize_filename"
    /\ call.stage = 2
    /\ Len(call.arg) = MaxNameLen
    /\ \E j \in 1..Len(call.arg) : call.arg[j] \in ForbiddenChars
    /\ \E j \in 1..Len(call.arg) : call.arg[j] = "a"

(* ---------------------------------------------------------------------- *)
(* C13, as claimed.  For a text with one field  url = {U},  U an HTTP(S)   *)
(* URL ending in .pdf, among other  key = {value}  fields in any order,    *)
(* extract_pdf_url returns exactly U.                                      *)
(* ---------------------------------------------------------------------- *)

UrlFields(decl) == {j \in 1..Len(decl) : decl[j][1] = KeyUrl}

\* One url field with a PDF URL, the other fields with plain values.
OneUrlAmongOthers(decl) ==
    /\ Cardinality(UrlFields(decl)) = 1
    /\ \A j \in 1..Len(decl) :
         IF decl[j][1] = KeyUrl THEN decl[j][2] \in {HttpPdf, HttpsPdf}
         ELSE decl[j][2] \in PlainValues

DeclaredUrl(decl) == decl[CHOOSE j \in UrlFields(decl) : TRUE][2]

C13_ReturnsTheUrl ==
    (/\ call.fn = "extract_pdf_url"
     /\ call.stage = 1
     /\ OneUrlAmongOthers(call.decl))
    => call.result = DeclaredUrl(call.decl)

(* ---------------------------------------------------------------------- *)
(* C14, as claimed.  For a sequence of  key = {value}  assignments,        *)
(* extract_all_bib_fields returns a mapping whose keys are exactly the     *)
(* declared keys, each with its value trimmed, the last occurrence of a    *)
(* key giving its value.                                                   *)
(* ---------------------------------------------------------------------- *)

DeclaredKeys(decl) == {decl[j][1] : j \in 1..Len(decl)}

LastDeclared(decl, k) ==
    LET j == CHOOSE x \in 1..Len(decl) :
                /\ decl[x][1] = k
                /\ \A y \in 1..Len(decl) : decl[y][1] = k => y <= x
    IN  decl[j][2]

C14_RecoversDeclared ==
    (call.fn = "extract_all_bib_fields" /\ call.stage = 1) =>
      /\ {call.result[j][1] : j \in 1..Len(call.result)} = DeclaredKeys(call.decl)
      /\ \A k \in DeclaredKeys(call.decl) :
           DictGet(call.result, k, None) = Strip(LastDeclared(call.decl, k))

(* ---------------------------------------------------------------------- *)
(* C15, as claimed.  When a step of a paper's pipeline fails (an exception *)
(* or a non-2xx answer), no later step of that paper is executed; a failed *)
(* PDF download never leads to a JSON file for that paper.                 *)
(* ---------------------------------------------------------------------- *)

StepRank ==
    [abstract |-> 1, bib |-> 2, pdf_get |-> 3, pdf_open |-> 4, pdf_write |-> 5,
     json_open |-> 6, json_write |-> 7]

PaperSteps == DOMAIN StepRank

\* Step s of the pipeline of anchor k of invocation i was started.
Executed(i, k, s) ==
    CASE s = "abstract" -> Attempted(i, k)
      [] s = "bib" -> \E q \in requests : q.inv = i /\ q.k = k /\ q.kind = "bib"
      [] s = "pdf_get" -> \E q \in requests : q.inv = i /\ q.k = k /\ q.kind = "pdf"
      [] OTHER -> \E w \in writes : w.inv = i /\ w.k = k /\ w.op = s

NothingAfter(i, k, s) ==
    \A t \in PaperSteps : StepRank[t] > StepRank[s] => ~Executed(i, k, t)

\* The step a used response closed: a download is over with pdf_write.
StepOfUse(as) == IF as = "pdf" THEN "pdf_write" ELSE as

C15_FailedStepStopsPaper ==
    /\ \A r \in raised :
         (r.inv \in DOMAIN inv /\ r.at \in PaperSteps) =>
            NothingAfter(r.inv, r.k, r.at)
    /\ \A c \in consumed :
         (c.inv \in DOMAIN inv /\ c.as \in {"abstract", "bib", "pdf"}
            /\ c.status # 200) =>
            NothingAfter(c.inv, c.k, StepOfUse(c.as))

(* ---------------------------------------------------------------------- *)
(* C16.  Interleaving of the pipelines of distinct papers.                 *)
(* ---------------------------------------------------------------------- *)

\* A step of invocation i.
InvStep(i) ==
    \/ HrefStart(i)
    \/ HrefResponse(i)
    \/ AbstractResponse(i)
    \/ BibResponse(i)
    \/ PdfGetResponse(i)
    \/ PdfOpen(i)
    \/ PdfWrite(i)
    \/ JsonOpen(i)
    \/ JsonWrite(i)

\* The papers invocation i has discovered on its listing page and not
\* finished: the one in flight and the matching links after it.
PendingPapers(i) ==
    IF inv[i].pc \notin PaperSteps THEN {}
    ELSE {k \in Reached(i) : k >= inv[i].k /\ IsPaperLink(inv[i].links[k])}

\* The pipeline of anchor k of invocation i can take a step now.
CanStepNow(i, k) == inv[i].k = k /\ ENABLED InvStep(i)

(* C16, as claimed: whatever else is in flight, the pipeline of every      *)
(* discovered, unfinished paper can take its next step, so that the steps  *)
(* of any two distinct papers interleave arbitrarily.                      *)
C16_AsClaimed ==
    \A i \in DOMAIN inv : \A k \in PendingPapers(i) : CanStepNow(i, k)

(* C16, as amended.  No ordering is guaranteed across invocations: for any *)
(* two papers discovered under different index links, the pipelines run    *)
(* concurrently and may interleave arbitrarily.  While main waits in       *)
(* gather, every unfinished invocation can take its next step whatever the *)
(* others have done, so a step of one can occur between two steps of       *)
(* another.                                                                *)
C16_InvocationsInterleave ==
    main_pc = "gather" =>
      \A i \in DOMAIN inv :
        inv[i].pc # "done" => ENABLED InvStep(i)

\* Two papers of different invocations are in flight at once: the first
\* step of the one that started later lies between two steps of the other.
C16_Witness ==
    \E i, j \in DOMAIN inv :
      /\ i # j
      /\ inv[i].pc \in PaperSteps
      /\ inv[j].pc \in PaperSteps
      /\ inv[i].pc # "abstract"
      /\ inv[i].paper.abs_url # inv[j].paper.abs_url

(* ---------------------------------------------------------------------- *)
(* A fetch that never returns.                                             *)
(* ---------------------------------------------------------------------- *)

FetchSteps == {"listing", "abstract", "bib"}

Wedged(i) == i \in DOMAIN inv /\ inv[i].pc = "wedged"

\* The fetch invocation i awaits never returns: there is no timeout, the
\* invocation stays at its await for good.  One fetch of the run does so.
FetchHangs(i) ==
    /\ inv[i].pc \in FetchSteps
    /\ \A j \in DOMAIN inv : ~Wedged(j)
    /\ inv' = [inv EXCEPT ![i].pc = "wedged"]
    /\ UNCHANGED <<call, index, main_pc, tasks, dirs, files, log, requests,
                   consumed, writes, raised, faults>>

HangNext ==
    \/ Next
    \/ \E i \in DOMAIN inv : FetchHangs(i)

\* The event loop runs every callback that is ready, and every request
\* other than the wedged one is answered.
HangSpec == Init /\ [][HangNext]_vars /\ WF_vars(Next)

(* ---------------------------------------------------------------------- *)
(* C17.  When one fetch of one invocation never returns, every other       *)
(* invocation still finishes in the end, and main never returns: it waits  *)
(* for the wedged invocation too.                                          *)
(* ---------------------------------------------------------------------- *)
AnyWedged == \E i \in DOMAIN inv : Wedged(i)

OthersDone == \A j \in DOMAIN inv : Wedged(j) \/ inv[j].pc = "done"

C17_HangStallsOnlyItsBranch ==
    /\ AnyWedged ~> (AnyWedged /\ OthersDone)
    /\ [](AnyWedged => main_pc # "done")

\* One invocation is wedged, the other has written its files and is done,
\* main waits.
C17_Witness ==
    /\ Len(inv) = 2
    /\ Wedged(1)
    /\ inv[2].pc = "done"
    /\ main_pc = "gather"
    /\ \E w \in writes : w.inv = 2 /\ w.op = "json_write"

(* ---------------------------------------------------------------------- *)
(* C18, as claimed.  No destination path is written by two invocations at  *)
(* a time, except when distinct papers have the same sanitized names: two  *)
(* invocations that hold the same path open for writing do so for          *)
(* different papers.                                                       *)
(* ---------------------------------------------------------------------- *)

\* The file invocation i has opened and not yet written and closed.
OpenForWrite(i) ==
    CASE inv[i].pc = "pdf_write" -> {inv[i].paper.pdf_file_path}
      [] inv[i].pc = "json_write" -> {inv[i].paper.json_file_path}
      [] OTHER -> {}

C18_NoSharedOpenFile ==
    \A i, j \in DOMAIN inv :
      (i # j /\ OpenForWrite(i) \cap OpenForWrite(j) # {}) =>
         inv[i].paper.abs_url # inv[j].paper.abs_url

(* ---------------------------------------------------------------------- *)
(* C19.  Within one process_href invocation the papers of the listing page *)
(* are processed one after another in document order: the pipeline of the  *)
(* next matching link starts its abstract fetch only when the pipeline of  *)
(* the one before has finished, and no step of an earlier paper happens    *)
(* after a later one was started.                                          *)
(* ---------------------------------------------------------------------- *)

\* The last anchor of its listing invocation i has started a pipeline for.
LastAttempted(i) ==
    LET ks == {k \in DOMAIN inv[i].links : Attempted(i, k)}
    IN  IF ks = {} THEN 0 ELSE CHOOSE k \in ks : \A j \in ks : j <= k

\* What a step adds to the histories for invocation i: the anchors named.
NewAnchors(i) ==
    {q.k : q \in {x \in requests' \ requests : x.inv = i}}
    \cup {w.k : w \in {x \in writes' \ writes : x.inv = i}}
    \cup {c.k : c \in {x \in consumed' \ consumed : x.inv = i}}

C19_Order ==
    \A i \in DOMAIN inv :
      /\ \A k \in DOMAIN inv[i].links :
           Attempted(i, k) =>
             /\ IsPaperLink(inv[i].links[k])
             /\ k <= inv[i].k
             /\ \A j \in 1..(k - 1) :
                  IsPaperLink(inv[i].links[j]) => Attempted(i, j)
      /\ inv[i].pc \in PaperSteps => inv[i].k = LastAttempted(i)

C19_Step ==
    \A i \in DOMAIN inv :
      /\ \A k \in NewAnchors(i) : k >= LastAttempted(i)
      /\ \A q \in requests' \ requests :
           (q.inv = i /\ q.kind = "abstract") =>
              /\ q.k > LastAttempted(i)
              /\ inv[i].pc \in PaperSteps \cup {"listing"}
              /\ inv'[i].pc = "abstract"
              /\ inv'[i].k = q.k

C19_OneAfterAnother == []C19_Order /\ [][C19_Step]_vars

\* An invocation has written the JSON of one paper and started a later one.
C19_Witness ==
    \E i \in DOMAIN inv : \E k1, k2 \in DOMAIN inv[i].links :
      /\ k1 < k2
      /\ Attempted(i, k2)
      /\ \E w \in writes : w.inv = i /\ w.k = k1 /\ w.op = "json_write"
      /\ inv[i].pc = "pdf_write"

(* ---------------------------------------------------------------------- *)
(* C20.  A failure of main's own steps is not isolated: when the index     *)
(* fetch raises, or reading an index link's href raises, main ends with    *)
(* that exception and launches no invocation: no listing is fetched and no *)
(* file is written; only folders of index links before the failure may     *)
(* exist.                                                                  *)
(* ---------------------------------------------------------------------- *)

IndexFetchRaised == \E r \in raised : r.inv = 0 /\ r.at = "fetch_index"

IndexHrefRaised == \E r \in raised : r.inv = 0 /\ r.at = "href"

\* The folders main makes for the index links.
IndexFolders ==
    {PathJoin(DOWNLOAD_PATH, Replace(index[j].href, PAPER_PREFIX, <<>>)) :
        j \in {x \in DOMAIN index : IsPaperLink(index[x])}}

NothingLaunched ==
    /\ main_pc = "failed"
    /\ \A i \in DOMAIN inv : inv[i].pc = "created"
    /\ \A q \in requests : q.kind = "index"
    /\ files = <<>>
    /\ writes = {}
    /\ \A d \in dirs : \E f \in IndexFolders : StartsWith(f, d)

C20_DriverFailureEndsRun ==
    /\ (IndexFetchRaised \/ IndexHrefRaised) => NothingLaunched
    /\ IndexFetchRaised => (tasks = <<>> /\ dirs = {})

\* An index link without href after a paper link: main has failed with the
\* folder of the first link made and its coroutine never started.
C20_Witness ==
    /\ IndexHrefRaised
    /\ main_pc = "failed"
    /\ Len(tasks) = 1
    /\ dirs # {}

====
